---- MODULE Spec2Model ----
\* The `container` module of the prompt (src/modules/container.rs): the probe
\* chain container_name and the module function that formats its result.
\* Text is modelled as a sequence of one-character strings, so that prefix
\* stripping, trimming and splitting are computed character by character.
EXTENDS Naturals, Sequences, FiniteSets

VARIABLES context, config, pc, detected_name, module, output, log

vars == <<context, config, pc, detected_name, module, output, log>>

\* ---------------------------------------------------------------- bounds

\* A /run/.containerenv file of the parsing specification has at most MaxLines
\* lines, whose values (the text after the prefix) hold at most MaxValueLen
\* characters together.
MaxLines == 2
MaxValueLen == 3
\* A /run/systemd/container file of the systemd specification has at most
\* MaxPad whitespace characters before and after its word.
MaxPad == 1

\* ---------------------------------------------------------------- values

None == [some |-> FALSE]
Some(v) == [some |-> TRUE, val |-> v]

Ok(v) == [ok |-> TRUE, val |-> v]
Err(e) == [ok |-> FALSE, err |-> e]

QUOTE == "\""
SLASH == "/"
LF == "\n"
CR == "\r"

OpenVZ == <<"O", "p", "e", "n", "V", "Z">>
OCI == <<"O", "C", "I">>
Podman == <<"p", "o", "d", "m", "a", "n">>
Docker == <<"D", "o", "c", "k", "e", "r">>
Systemd == <<"S", "y", "s", "t", "e", "m", "d">>

NamePrefix == <<"n", "a", "m", "e", "=">>
ImagePrefix == <<"i", "m", "a", "g", "e", "=">>

DockerWord == <<"d", "o", "c", "k", "e", "r">>
WslWord == <<"w", "s", "l">>

\* The marker paths of the probe chain.
P_VZ == "/proc/vz"
P_BC == "/proc/bc"
P_OCI == "/run/host/container-manager"
P_CENV == "/run/.containerenv"
P_SYSTEMD == "/run/systemd/container"
P_DOCKERENV == "/.dockerenv"

Paths == {P_VZ, P_BC, P_OCI, P_CENV, P_SYSTEMD, P_DOCKERENV}

\* A path of the context's root: whether it exists, whether it can be read as
\* text, and its text.
Absent == [exists |-> FALSE, readable |-> FALSE, content |-> <<>>]
Unreadable == [exists |-> TRUE, readable |-> FALSE, content |-> <<>>]
TextFile(s) == [exists |-> TRUE, readable |-> TRUE, content |-> s]

\* ------------------------------------------------------- string primitives

\* Path::exists
exists(ctx, path) == ctx[path].exists

\* utils::read_file: the whole file as text, or an error
read_file(ctx, path) ==
    IF ctx[path].exists /\ ctx[path].readable
    THEN Ok(ctx[path].content)
    ELSE Err("io")

\* str::strip_prefix
strip_prefix(line, prefix) ==
    IF Len(prefix) <= Len(line) /\ SubSeq(line, 1, Len(prefix)) = prefix
    THEN Some(SubSeq(line, Len(prefix) + 1, Len(line)))
    ELSE None

\* str::trim_matches(c): every leading and every trailing c removed
RECURSIVE trim_start_matches(_, _)
trim_start_matches(s, c) ==
    IF s # <<>> /\ Head(s) = c THEN trim_start_matches(Tail(s), c) ELSE s

RECURSIVE trim_end_matches(_, _)
trim_end_matches(s, c) ==
    IF s # <<>> /\ s[Len(s)] = c
    THEN trim_end_matches(SubSeq(s, 1, Len(s) - 1), c)
    ELSE s

trim_matches(s, c) == trim_end_matches(trim_start_matches(s, c), c)

\* str::split_once(c): the text before and after the first c, if there is one
split_once(s, c) ==
    LET at == {i \in 1..Len(s) : s[i] = c}
    IN  IF at = {} THEN None
        ELSE LET i == CHOOSE k \in at : \A j \in at : k <= j
             IN  Some(<<SubSeq(s, 1, i - 1), SubSeq(s, i + 1, Len(s))>>)

\* str::rsplit_once(c): the text before and after the last c, if there is one
rsplit_once(s, c) ==
    LET at == {i \in 1..Len(s) : s[i] = c}
    IN  IF at = {} THEN None
        ELSE LET i == CHOOSE k \in at : \A j \in at : j <= k
             IN  Some(<<SubSeq(s, 1, i - 1), SubSeq(s, i + 1, Len(s))>>)

\* The characters of Unicode's White_Space property: U+0009 to U+000D, U+0020,
\* U+0085, U+00A0, U+1680, U+2000 to U+200A, U+2028, U+2029, U+202F, U+205F
\* and U+3000. A character that has no escape in a string is written as the
\* name of its code point.
White_Space ==
    {"\t", LF, "U+000B", "\f", CR, " ", "U+0085", "U+00A0", "U+1680",
     "U+2000", "U+2001", "U+2002", "U+2003", "U+2004", "U+2005", "U+2006",
     "U+2007", "U+2008", "U+2009", "U+200A", "U+2028", "U+2029", "U+202F",
     "U+205F", "U+3000"}

\* char::is_whitespace
is_whitespace(c) == c \in White_Space

\* str::trim: leading and trailing whitespace removed
RECURSIVE trim_start(_)
trim_start(s) ==
    IF s # <<>> /\ is_whitespace(Head(s)) THEN trim_start(Tail(s)) ELSE s

RECURSIVE trim_end(_)
trim_end(s) ==
    IF s # <<>> /\ is_whitespace(s[Len(s)])
    THEN trim_end(SubSeq(s, 1, Len(s) - 1))
    ELSE s

trim(s) == trim_end(trim_start(s))

\* str::lines: split at "\n"; a line's "\r" before the "\n" is removed too; a
\* final line ending yields no further empty line
strip_cr(line) ==
    IF line # <<>> /\ line[Len(line)] = CR
    THEN SubSeq(line, 1, Len(line) - 1)
    ELSE line

RECURSIVE lines(_)
lines(buf) ==
    IF buf = <<>> THEN <<>>
    ELSE LET nl == {i \in 1..Len(buf) : buf[i] = LF}
         IN  IF nl = {} THEN <<buf>>
             ELSE LET i == CHOOSE k \in nl : \A j \in nl : k <= j
                  IN  <<strip_cr(SubSeq(buf, 1, i - 1))>>
                          \o lines(SubSeq(buf, i + 1, Len(buf)))

\* ------------------------------------------------------------ probe chain

\* Iterator::find_map over per-line results: the first that is Some
RECURSIVE find_map(_)
find_map(results) ==
    IF results = <<>> THEN None
    ELSE IF Head(results).some THEN Head(results)
    ELSE find_map(Tail(results))

\* The find_map closure of the .containerenv probe, with the prefix check of
\* either mode (a line of either prefix matches).
containerenv_line_any_prefix(line, use_container_name) ==
    LET byName == strip_prefix(line, NamePrefix)
        byImage == strip_prefix(line, ImagePrefix)
        stripped == IF byName.some THEN byName ELSE byImage
    IN  IF ~stripped.some THEN None
        ELSE LET name == trim_matches(stripped.val, QUOTE)
             IN  IF use_container_name THEN Some(name)
                 ELSE LET split == rsplit_once(name, SLASH)
                      IN  Some(IF split.some THEN split.val[2] ELSE name)

\* The find_map closure of the .containerenv probe: the name a line gives
containerenv_line(line, use_container_name) ==
    LET prefix == IF use_container_name THEN NamePrefix ELSE ImagePrefix
        stripped == strip_prefix(line, prefix)
    IN  IF ~stripped.some THEN None
        ELSE LET name == trim_matches(stripped.val, QUOTE)
             IN  IF use_container_name THEN Some(name)
                 ELSE LET split == rsplit_once(name, SLASH)
                      IN  Some(IF split.some THEN split.val[2] ELSE name)

\* The closure mapped over the text of .containerenv
containerenv_name(buf, use_container_name) ==
    LET ls == lines(buf)
        found == find_map([i \in 1..Len(ls) |->
                              containerenv_line(ls[i], use_container_name)])
    IN  IF found.some THEN found.val ELSE Podman

\* The match on the trimmed text of /run/systemd/container, with "wsl" shown
\* as any other manager.
systemd_match_wsl_shown(s) ==
    LET t == trim(s)
    IN  IF t = DockerWord THEN Some(Docker) ELSE Some(Systemd)

\* The match on the text of /run/systemd/container, without the trim.
systemd_match_untrimmed(s) ==
    IF s = DockerWord THEN Some(Docker)
    ELSE IF s = WslWord THEN None
    ELSE Some(Systemd)

\* The match on the trimmed text of /run/systemd/container, with empty text
\* treated as no manager.
systemd_match_empty_skipped(s) ==
    LET t == trim(s)
    IN  IF t = DockerWord THEN Some(Docker)
        ELSE IF t = WslWord \/ t = <<>> THEN None
        ELSE Some(Systemd)

\* The match on the trimmed text of /run/systemd/container: the name it
\* returns, or None where the match arm is () and control goes on
systemd_match(s) ==
    LET t == trim(s)
    IN  IF t = DockerWord THEN Some(Docker)
        ELSE IF t = WslWord THEN None
        ELSE Some(Systemd)

\* The systemd probe, the /.dockerenv probe and the final None
late_probes(ctx) ==
    LET r == read_file(ctx, P_SYSTEMD)
        m == IF r.ok THEN systemd_match(r.val) ELSE None
    IN  IF m.some THEN m
        ELSE IF exists(ctx, P_DOCKERENV) THEN Some(Docker)
        ELSE None

\* The .containerenv probe once the path exists: read_file(..).map(..) and
\* `return name_result.ok()`
containerenv_probe(ctx, cfg) ==
    LET name_result == read_file(ctx, P_CENV)
    IN  IF name_result.ok
        THEN Some(containerenv_name(name_result.val, cfg.use_container_name))
        ELSE None

\* container_name with the systemd marker consulted before .containerenv.
container_name_systemd_first(ctx, cfg) ==
    IF exists(ctx, P_VZ) /\ ~exists(ctx, P_BC) THEN Some(OpenVZ)
    ELSE IF exists(ctx, P_OCI) THEN Some(OCI)
    ELSE IF read_file(ctx, P_SYSTEMD).ok /\ systemd_match(read_file(ctx, P_SYSTEMD).val).some
    THEN systemd_match(read_file(ctx, P_SYSTEMD).val)
    ELSE IF exists(ctx, P_CENV) THEN containerenv_probe(ctx, cfg)
    ELSE late_probes(ctx)

\* container_name with the OCI marker consulted before the OpenVZ markers.
container_name_oci_first(ctx, cfg) ==
    IF exists(ctx, P_OCI) THEN Some(OCI)
    ELSE IF exists(ctx, P_VZ) /\ ~exists(ctx, P_BC) THEN Some(OpenVZ)
    ELSE IF exists(ctx, P_CENV) THEN containerenv_probe(ctx, cfg)
    ELSE late_probes(ctx)

\* fn container_name: the probes in order, each an early return
container_name(ctx, cfg) ==
    IF exists(ctx, P_VZ) /\ ~exists(ctx, P_BC) THEN Some(OpenVZ)
    ELSE IF exists(ctx, P_OCI) THEN Some(OCI)
    ELSE IF exists(ctx, P_CENV) THEN containerenv_probe(ctx, cfg)
    ELSE late_probes(ctx)

\* -------------------------------------------------------------- formatter
\* crate::formatter::StringFormatter, as the design describes it: a template
\* is a sequence of tokens; a style group wraps literal, variable and
\* meta-variable tokens.

Literal(t) == [kind |-> "Literal", text |-> t, name |-> "", children |-> <<>>]
Variable(n) == [kind |-> "Variable", text |-> <<>>, name |-> n, children |-> <<>>]
MetaVariable(n) == [kind |-> "MetaVariable", text |-> <<>>, name |-> n, children |-> <<>>]
StyleGroup(cs, n) == [kind |-> "StyleGroup", text |-> <<>>, name |-> n, children |-> cs]

Segment(t, st) == [text |-> t, style |-> st]

\* A template text: one the formatter's grammar accepts, with its tokens, or a
\* malformed one.
Template(ts) == [wellformed |-> TRUE, tokens |-> ts]
Malformed == [wellformed |-> FALSE, tokens |-> <<>>]

\* StringFormatter::new
StringFormatter_new(format) ==
    IF format.wellformed THEN Ok(format.tokens) ELSE Err("ParseError")

\* The map_meta closure of module
map_meta(variable, cfg) ==
    IF variable = "symbol" THEN Some(cfg.symbol) ELSE None

\* The map_style closure of module
map_style(variable, cfg) ==
    IF variable = "style" THEN Some(Ok(cfg.style)) ELSE None

\* The map closure of module
map_variable(variable, name) ==
    IF variable = "name" THEN Some(Ok(name)) ELSE None

\* The segments of the tokens inside a style group (or of a top-level token
\* that is no group), under the style st
RECURSIVE render_tokens(_, _, _, _)
render_tokens(tokens, st, cfg, name) ==
    IF tokens = <<>> THEN Ok(<<>>)
    ELSE LET tok == Head(tokens)
             first ==
                 CASE tok.kind = "Literal" -> Ok(<<Segment(tok.text, st)>>)
                   [] tok.kind = "Variable" ->
                        LET r == map_variable(tok.name, name)
                        IN  IF ~r.some THEN Err("UnknownVariable")
                            ELSE IF ~r.val.ok THEN r.val
                            ELSE Ok(<<Segment(r.val.val, st)>>)
                   [] tok.kind = "MetaVariable" ->
                        LET r == map_meta(tok.name, cfg)
                        IN  IF ~r.some THEN Err("UnresolvedMeta")
                            ELSE Ok(<<Segment(r.val, st)>>)
                   [] OTHER -> Err("NestedGroup")
             rest == render_tokens(Tail(tokens), st, cfg, name)
         IN  IF ~first.ok THEN first
             ELSE IF ~rest.ok THEN rest
             ELSE Ok(first.val \o rest.val)

\* StringFormatter::parse: the segments of the template, or the first error
RECURSIVE parse(_, _, _)
parse(tokens, cfg, name) ==
    IF tokens = <<>> THEN Ok(<<>>)
    ELSE LET tok == Head(tokens)
             first ==
                 IF tok.kind = "StyleGroup"
                 THEN LET st == map_style(tok.name, cfg)
                      IN  IF ~st.some THEN Err("UnknownStyle")
                          ELSE IF ~st.val.ok THEN st.val
                          ELSE render_tokens(tok.children, Some(st.val.val), cfg, name)
                 ELSE render_tokens(<<tok>>, None, cfg, name)
             rest == parse(Tail(tokens), cfg, name)
         IN  IF ~first.ok THEN first
             ELSE IF ~rest.ok THEN rest
             ELSE Ok(first.val \o rest.val)

\* ----------------------------------------------------------------- module

\* context.new_module("container"): a module with no segments
new_module == [name |-> "container", segments |-> <<>>]

\* module, up to `container_name(context)?`, taking a disabled configuration
\* for an enabled one.
module_detect_ignoring_disabled ==
    /\ pc = "start"
    /\ LET n == container_name(context, config)
       IN  /\ detected_name' = n
           /\ IF n.some
              THEN pc' = "format" /\ output' = output
              ELSE pc' = "done" /\ output' = None
    /\ UNCHANGED <<context, config, module, log>>

\* module, up to `container_name(context)?`: None when the configuration is
\* disabled or no name is detected
module_detect ==
    /\ pc = "start"
    /\ IF config.disabled
       THEN pc' = "done" /\ output' = None /\ detected_name' = detected_name
       ELSE LET n == container_name(context, config)
            IN  /\ detected_name' = n
                /\ IF n.some
                   THEN pc' = "format" /\ output' = output
                   ELSE pc' = "done" /\ output' = None
    /\ UNCHANGED <<context, config, module, log>>

\* module, from the formatter on, returning the module when the formatter
\* fails.
module_format_error_kept ==
    /\ pc = "format"
    /\ LET formatter == StringFormatter_new(config.format)
           parsed == IF formatter.ok
                     THEN parse(formatter.val, config, detected_name.val)
                     ELSE formatter
       IN  /\ module' = [module EXCEPT !.segments = IF parsed.ok THEN parsed.val ELSE <<>>]
           /\ log' = log
           /\ output' = Some(module')
    /\ pc' = "done"
    /\ UNCHANGED <<context, config, detected_name>>

\* module, from the formatter on: the segments are set and the module
\* returned, or the error is logged and None returned
module_format ==
    /\ pc = "format"
    /\ LET formatter == StringFormatter_new(config.format)
           parsed == IF formatter.ok
                     THEN parse(formatter.val, config, detected_name.val)
                     ELSE formatter
       IN  IF parsed.ok
           THEN /\ module' = [module EXCEPT !.segments = parsed.val]
                /\ log' = log
                /\ output' = Some(module')
           ELSE /\ log' = Append(log, [level |-> "warn", error |-> parsed.err])
                /\ module' = module
                /\ output' = None
    /\ pc' = "done"
    /\ UNCHANGED <<context, config, detected_name>>

Next == module_detect \/ module_format

\* ----------------------------------------------------------------- inputs

\* A marker path that only has to exist
Marker(b) == IF b THEN TextFile(<<>>) ELSE Absent

MakeContext(vz, bc, oci, cenv, sysd, dock) ==
    [p \in Paths |->
        CASE p = P_VZ -> Marker(vz)
          [] p = P_BC -> Marker(bc)
          [] p = P_OCI -> Marker(oci)
          [] p = P_CENV -> cenv
          [] p = P_SYSTEMD -> sysd
          [] p = P_DOCKERENV -> Marker(dock)]

\* ContainerConfig::default: symbol (the one glyph U+2B22) and style
DefaultSymbol == <<"U+2B22">>
DefaultStyle == "red bold dimmed"

\* ContainerConfig::default: format "[$symbol \[$name\]]($style) "
DefaultFormat ==
    Template(<<StyleGroup(<<MetaVariable("symbol"), Literal(<<" ", "[">>),
                            Variable("name"), Literal(<<"]">>)>>, "style"),
               Literal(<<" ">>)>>)

Formats ==
    { DefaultFormat,
      Template(<<Literal(<<"i", "n", " ">>), Variable("name")>>),
      Template(<<Variable("name"), Variable("hostname")>>),
      Template(<<Variable("symbol")>>),
      Template(<<MetaVariable("glyph"), Variable("name")>>),
      Template(<<StyleGroup(<<Variable("name")>>, "bold")>>),
      Malformed }

Configs ==
    [disabled : BOOLEAN, use_container_name : BOOLEAN, format : Formats,
     symbol : {DefaultSymbol, <<"c">>}, style : {DefaultStyle}]

DefaultConfigs ==
    [disabled : BOOLEAN, use_container_name : BOOLEAN, format : {DefaultFormat},
     symbol : {DefaultSymbol}, style : {DefaultStyle}]

\* Texts of /run/.containerenv and /run/systemd/container as the tests write
\* them
ImageAndNameText ==
    <<"i", "m", "a", "g", "e", "=", QUOTE, "r", ".", "i", "o", SLASH, "f", "b",
      ":", "3", "5", QUOTE, LF, "n", "a", "m", "e", "=", QUOTE, "b", "o", "x",
      QUOTE, LF>>
EmptyImageText == <<"i", "m", "a", "g", "e", "=", QUOTE, QUOTE, LF>>
CrLfText ==
    <<"n", "a", "m", "e", "=", QUOTE, "b", "o", "x", QUOTE, CR, LF,
      "i", "m", "a", "g", "e", "=", QUOTE, "f", "b", QUOTE>>
DockerText == <<"d", "o", "c", "k", "e", "r", LF>>
WslText == <<"w", "s", "l", LF>>
NspawnWord == <<"s", "y", "s", "t", "e", "m", "d", "-", "n", "s", "p", "a", "w", "n">>
NspawnText == NspawnWord \o <<LF>>

ChainContainerEnvFiles ==
    {Absent, Unreadable, TextFile(<<>>), TextFile(ImageAndNameText),
     TextFile(EmptyImageText), TextFile(CrLfText)}

ChainSystemdFiles ==
    {Absent, Unreadable, TextFile(<<>>), TextFile(DockerText), TextFile(WslText),
     TextFile(NspawnText)}

\* The texts of /run/.containerenv of at most k lines whose values hold at
\* most n characters together; a line is a prefix, a value and "\n"
LinePrefixes == {NamePrefix, ImagePrefix, <<>>}
ValueAlphabet == {QUOTE, SLASH, "a"}
Values(n) == UNION {[1..k -> ValueAlphabet] : k \in 0..n}

RECURSIVE ContainerEnvTexts(_, _)
ContainerEnvTexts(k, n) ==
    IF k = 0 THEN {<<>>}
    ELSE {<<>>} \cup
         UNION {{p \o v \o <<LF>> \o f :
                    p \in LinePrefixes, f \in ContainerEnvTexts(k - 1, n - Len(v))} :
                v \in Values(n)}

\* The texts of /run/systemd/container: a word with at most n whitespace
\* characters before and after it
PadCharacters == {" ", LF, "\f", "U+00A0"}
Pads(n) == UNION {[1..k -> PadCharacters] : k \in 0..n}
SystemdWords == {<<>>, DockerWord, WslWord, NspawnWord, Docker, <<"l", "x", "c">>}
SystemdTexts(n) == {a \o w \o b : a \in Pads(n), w \in SystemdWords, b \in Pads(n)}

\* ---------------------------------------------------------- specifications

\* The state as module is entered
InitLocals ==
    /\ pc = "start"
    /\ detected_name = None
    /\ module = new_module
    /\ output = None
    /\ log = <<>>

\* The probe chain and the formatter: every combination of the marker paths,
\* with the texts the tests write
Init ==
    /\ InitLocals
    /\ config \in Configs
    /\ \E vz \in BOOLEAN, bc \in BOOLEAN, oci \in BOOLEAN, dock \in BOOLEAN,
          cenv \in ChainContainerEnvFiles, sysd \in ChainSystemdFiles :
          context = MakeContext(vz, bc, oci, cenv, sysd, dock)

Spec == Init /\ [][Next]_vars

\* The parsing of /run/.containerenv: every text within the bounds
InitContainerEnv ==
    /\ InitLocals
    /\ config \in {c \in DefaultConfigs : ~c.disabled}
    /\ \E text \in ContainerEnvTexts(MaxLines, MaxValueLen) :
          context = MakeContext(FALSE, FALSE, FALSE, TextFile(text),
                                TextFile(DockerText), TRUE)

SpecContainerEnv == InitContainerEnv /\ [][Next]_vars

\* The match on /run/systemd/container: every text within the bounds
InitSystemd ==
    /\ InitLocals
    /\ config \in DefaultConfigs
    /\ \E vz \in BOOLEAN, bc \in BOOLEAN, oci \in BOOLEAN, dock \in BOOLEAN,
          cenv \in {Absent, TextFile(<<>>)},
          sysd \in {Absent, Unreadable} \cup {TextFile(t) : t \in SystemdTexts(MaxPad)} :
          context = MakeContext(vz, bc, oci, cenv, sysd, dock)

SpecSystemd == InitSystemd /\ [][Next]_vars

\* ------------------------------------------------------------- properties

OpenVZMatches == context[P_VZ].exists /\ ~context[P_BC].exists
OCIMatches == context[P_OCI].exists

\* container_name has been called and has returned
DetectionRan == pc \in {"format", "done"} /\ ~config.disabled

ContainerEnvReached ==
    DetectionRan /\ ~OpenVZMatches /\ ~OCIMatches /\ context[P_CENV].exists

SystemdReached ==
    DetectionRan /\ ~OpenVZMatches /\ ~OCIMatches /\ ~context[P_CENV].exists

Readable(p) == context[p].exists /\ context[p].readable

DockerOrAbsent == IF context[P_DOCKERENV].exists THEN Some(Docker) ELSE None

Whitespace == White_Space

\* s is the word w with only whitespace before and after it
TrimsTo(s, w) ==
    \E a \in 0..Len(s) :
        /\ a + Len(w) <= Len(s)
        /\ \A i \in 1..Len(w) : s[a + i] = w[i]
        /\ \A i \in 1..Len(s) : (i <= a \/ i > a + Len(w)) => s[i] \in Whitespace

SystemdText == context[P_SYSTEMD].content
ContainerEnvText == context[P_CENV].content

\* C1: when /run/.containerenv exists and cannot be read, the probe counts as
\* not matched and the chain goes on, so that "docker" in
\* /run/systemd/container, or /.dockerenv when that file cannot be read,
\* gives "Docker". (`return name_result.ok()` returns None there instead.)
C1_ReadFailureFallsThrough ==
    (/\ ContainerEnvReached
     /\ ~context[P_CENV].readable
     /\ \/ Readable(P_SYSTEMD) /\ TrimsTo(SystemdText, DockerWord)
        \/ ~Readable(P_SYSTEMD) /\ context[P_DOCKERENV].exists)
        => detected_name = Some(Docker)

\* /run/.containerenv exists and cannot be read, while both later probes
\* would give "Docker"; module has returned.
C1_Witness ==
    /\ ContainerEnvReached
    /\ ~context[P_CENV].readable
    /\ Readable(P_SYSTEMD) /\ TrimsTo(SystemdText, DockerWord)
    /\ context[P_DOCKERENV].exists
    /\ pc = "done"

\* C2: when /run/.containerenv is reached and readable, the detected name is
\* the value derived from that file, whatever /run/systemd/container and
\* /.dockerenv hold; it is never the "Docker" or "Systemd" of the later probes.
C2_ContainerEnvAuthoritative ==
    (ContainerEnvReached /\ context[P_CENV].readable)
        => /\ detected_name =
                  Some(containerenv_name(ContainerEnvText, config.use_container_name))
           /\ detected_name \notin {Some(Docker), Some(Systemd)}

C2_Witness ==
    /\ ContainerEnvReached
    /\ ContainerEnvText = EmptyImageText
    /\ context[P_CENV].readable
    /\ ~config.use_container_name
    /\ Readable(P_SYSTEMD) /\ SystemdText = DockerText
    /\ context[P_DOCKERENV].exists
    /\ detected_name = Some(<<>>)

\* C3: with config.disabled, module returns None: detection does not run, no
\* segment is set and the formatter is never entered.
C3_DisabledIsAbsent ==
    config.disabled
        => /\ pc \in {"start", "done"}
           /\ detected_name = None
           /\ module.segments = <<>>
           /\ pc = "done" => output = None

C3_Witness ==
    /\ config.disabled
    /\ pc = "done"
    /\ OpenVZMatches
    /\ config.format = DefaultFormat
    /\ output = None

\* C4: when /proc/vz exists and /proc/bc does not, the detected name is
\* "OpenVZ", whatever the other marker paths hold and in either mode.
C4_OpenVZFirst ==
    (DetectionRan /\ OpenVZMatches) => detected_name = Some(OpenVZ)

C4_Witness ==
    /\ DetectionRan
    /\ OpenVZMatches
    /\ OCIMatches
    /\ Readable(P_CENV) /\ ContainerEnvText = ImageAndNameText
    /\ Readable(P_SYSTEMD) /\ SystemdText = DockerText
    /\ context[P_DOCKERENV].exists
    /\ config.use_container_name
    /\ detected_name = Some(OpenVZ)

\* The prefix the mode selects, the lines of .containerenv that start with it,
\* and the value of the first of them
SelectedPrefix == IF config.use_container_name THEN NamePrefix ELSE ImagePrefix
OtherPrefix == IF config.use_container_name THEN ImagePrefix ELSE NamePrefix

StartsWith(l, p) == Len(p) <= Len(l) /\ \A i \in 1..Len(p) : l[i] = p[i]

SelectedIn(ls) == {i \in 1..Len(ls) : StartsWith(ls[i], SelectedPrefix)}

FirstSelectedIn(ls) ==
    LET sel == SelectedIn(ls)
        i == CHOOSE k \in sel : \A j \in sel : k <= j
    IN  [j \in 1..(Len(ls[i]) - Len(SelectedPrefix)) |-> ls[i][Len(SelectedPrefix) + j]]

SelectedLines == SelectedIn(lines(ContainerEnvText))

FirstSelectedValue == FirstSelectedIn(lines(ContainerEnvText))

\* core is v without its leading and trailing double quotes
QuoteTrimmed(v, core) ==
    \E a \in 0..Len(v), b \in 0..Len(v) :
        /\ a + b <= Len(v)
        /\ core = [j \in 1..(Len(v) - a - b) |-> v[a + j]]
        /\ \A i \in 1..Len(v) : (i <= a \/ i > Len(v) - b) => v[i] = QUOTE
        /\ core # <<>> => (core[1] # QUOTE /\ core[Len(core)] # QUOTE)

\* r is what follows the last '/' of core, or core when it has none
AfterLastSlash(core, r) ==
    IF \E i \in 1..Len(core) : core[i] = SLASH
    THEN /\ \A j \in 1..Len(r) : r[j] # SLASH
         /\ \E i \in 1..Len(core) :
               /\ core[i] = SLASH
               /\ r = [j \in 1..(Len(core) - i) |-> core[i + j]]
    ELSE r = core

\* C5: when /run/.containerenv is reached and readable and a line starts with
\* the selected prefix, the name is the first such line without the prefix and
\* without its leading and trailing double quotes; in image mode only what
\* follows the last '/' is kept, in name mode nothing more is removed.
C5_FirstSelectedLine ==
    (ContainerEnvReached /\ context[P_CENV].readable)
        => LET ls == lines(ContainerEnvText)
           IN  SelectedIn(ls) # {}
                 => LET v == FirstSelectedIn(ls)
                    IN  /\ detected_name.some
                        /\ \E a \in 0..Len(v), b \in 0..Len(v) :
                              a + b <= Len(v) /\
                              LET core == [j \in 1..(Len(v) - a - b) |-> v[a + j]]
                              IN  /\ QuoteTrimmed(v, core)
                                  /\ IF config.use_container_name
                                     THEN detected_name.val = core
                                     ELSE AfterLastSlash(core, detected_name.val)

\* Image mode; the first line has the other prefix, the second the selected
\* one with a quoted value that has a '/' in it; the name is what follows it.
C5_Witness ==
    /\ ContainerEnvReached
    /\ context[P_CENV].readable
    /\ ~config.use_container_name
    /\ Len(lines(ContainerEnvText)) = 2
    /\ StartsWith(lines(ContainerEnvText)[1], OtherPrefix)
    /\ SelectedLines = {2}
    /\ FirstSelectedValue = <<QUOTE, SLASH, "a">>
    /\ detected_name = Some(<<"a">>)

\* r is a run of consecutive characters of v
PartOf(r, v) ==
    \E a \in 0..Len(v) :
        a + Len(r) <= Len(v) /\ \A j \in 1..Len(r) : r[j] = v[a + j]

\* C6: when /run/.containerenv is reached and readable, the name is "podman"
\* if no line starts with the selected prefix (lines of the other prefix do
\* not count); if one does, the name is not the fallback but text of the
\* first such line.
C6_PodmanFallback ==
    (ContainerEnvReached /\ context[P_CENV].readable)
        => LET ls == lines(ContainerEnvText)
           IN  /\ SelectedIn(ls) = {} => detected_name = Some(Podman)
               /\ SelectedIn(ls) # {}
                    => /\ detected_name.some
                       /\ detected_name # Some(Podman)
                       /\ PartOf(detected_name.val, FirstSelectedIn(ls))

\* Name mode, and the file has a line of the image prefix only.
C6_Witness ==
    /\ ContainerEnvReached
    /\ context[P_CENV].readable
    /\ config.use_container_name
    /\ Len(lines(ContainerEnvText)) = 1
    /\ StartsWith(lines(ContainerEnvText)[1], ImagePrefix)
    /\ Len(lines(ContainerEnvText)[1]) > Len(ImagePrefix)
    /\ detected_name = Some(Podman)

\* C7: when the systemd probe is reached and the trimmed text of
\* /run/systemd/container is "wsl", the name is "Docker" if /.dockerenv exists
\* and absent otherwise, never "Systemd"; with /.dockerenv absent module
\* returns None.
C7_WslSuppressed ==
    (SystemdReached /\ Readable(P_SYSTEMD) /\ TrimsTo(SystemdText, WslWord))
        => /\ detected_name = DockerOrAbsent
           /\ detected_name # Some(Systemd)
           /\ ~context[P_DOCKERENV].exists => (pc = "done" /\ output = None)

C7_Witness ==
    /\ SystemdReached
    /\ Readable(P_SYSTEMD)
    /\ SystemdText = <<" ">> \o WslWord \o <<LF>>
    /\ ~context[P_DOCKERENV].exists
    /\ pc = "done"
    /\ output = None

\* Some character of s is no whitespace
NonEmptyTrimmed(s) == \E i \in 1..Len(s) : s[i] \notin Whitespace

\* C8: when the systemd probe is reached, a readable /run/systemd/container
\* whose trimmed text is "docker" gives "Docker", one whose trimmed text is
\* non-empty and neither "docker" nor "wsl" gives "Systemd", both whatever
\* /.dockerenv is; an unreadable one leaves the name to /.dockerenv.
C8_SystemdContent ==
    SystemdReached
        => /\ (Readable(P_SYSTEMD) /\ TrimsTo(SystemdText, DockerWord))
                => detected_name = Some(Docker)
           /\ (/\ Readable(P_SYSTEMD)
               /\ NonEmptyTrimmed(SystemdText)
               /\ ~TrimsTo(SystemdText, DockerWord)
               /\ ~TrimsTo(SystemdText, WslWord))
                => detected_name = Some(Systemd)
           /\ ~Readable(P_SYSTEMD) => detected_name = DockerOrAbsent

C8_Witness ==
    /\ SystemdReached
    /\ Readable(P_SYSTEMD)
    /\ SystemdText = DockerWord \o <<LF>>
    /\ ~context[P_DOCKERENV].exists
    /\ detected_name = Some(Docker)

\* The template refers only to names the closures of module resolve: the
\* variable "name", the meta-variable "symbol" and the style "style".
KnownToken(tok) ==
    \/ tok.kind = "Literal"
    \/ tok.kind = "Variable" /\ tok.name = "name"
    \/ tok.kind = "MetaVariable" /\ tok.name = "symbol"

FormatResolves(format) ==
    /\ format.wellformed
    /\ \A i \in 1..Len(format.tokens) :
          LET tok == format.tokens[i]
          IN  IF tok.kind = "StyleGroup"
              THEN /\ tok.name = "style"
                   /\ \A j \in 1..Len(tok.children) : KnownToken(tok.children[j])
              ELSE KnownToken(tok)

\* C9: once module has returned with a name detected, a template that is
\* malformed or refers to an unknown variable, meta-variable or style gives
\* None, no segment set and one warning logged; the module is returned, with
\* its segments set, only when the formatter succeeds, and then without a
\* warning.
C9_FormatErrorIsAbsent ==
    (pc = "done" /\ DetectionRan /\ detected_name.some)
        => /\ ~FormatResolves(config.format)
                => /\ output = None
                   /\ module.segments = <<>>
                   /\ Len(log) = 1 /\ log[1].level = "warn"
           /\ FormatResolves(config.format)
                => /\ output = Some(module)
                   /\ module.segments # <<>>
                   /\ log = <<>>

C9_Witness ==
    /\ pc = "done"
    /\ DetectionRan
    /\ detected_name = Some(Docker)
    /\ config.format = Template(<<Variable("name"), Variable("hostname")>>)
    /\ output = None
    /\ module.segments = <<>>
    /\ Len(log) = 1

\* C10: when the systemd probe is reached and /run/systemd/container is
\* readable with no text but whitespace, the name is "Systemd" whatever
\* /.dockerenv is; a readable file leaves the name to the later probes only
\* when its trimmed text is "wsl".
C10_EmptyIsSystemd ==
    (SystemdReached /\ Readable(P_SYSTEMD))
        => /\ ~NonEmptyTrimmed(SystemdText) => detected_name = Some(Systemd)
           /\ ~TrimsTo(SystemdText, WslWord)
                => detected_name \in {Some(Docker), Some(Systemd)}
           /\ (~TrimsTo(SystemdText, WslWord) /\ ~TrimsTo(SystemdText, DockerWord))
                => detected_name = Some(Systemd)

C10_Witness ==
    /\ SystemdReached
    /\ Readable(P_SYSTEMD)
    /\ SystemdText = <<LF>>
    /\ context[P_DOCKERENV].exists
    /\ detected_name = Some(Systemd)

====
